---- MODULE Spec2Model ----
(***************************************************************************)
(* Model of the CNFans scraper: src/cnfans_webapp.py (the Streamlit page   *)
(* main() and the pipeline search_cnfans) and src/Price.py (the price      *)
(* display page).                                                          *)
(*                                                                         *)
(* Conventions.  Text is a sequence of one-character strings (or of short  *)
(* tokens for URLs, where a token is either "/" or does not begin with     *)
(* "/").  Python's None is the empty tuple <<>> and a present value v is   *)
(* <<v>>.  Money is an integer number of hundredths (1234.56 is 123456);   *)
(* a conversion rate is an integer number of hundredths (0.13 is 13).      *)
(***************************************************************************)
EXTENDS Integers, Sequences, FiniteSets, TLC

(***************************************************************************)
(* Bounds of the model.                                                    *)
(***************************************************************************)
\* longest listing page, in top-level elements
MaxCards == 2
\* upper end of the "maximum number of results" slider that is explored
MaxResults == 2

(***************************************************************************)
(* Optional values.                                                        *)
(***************************************************************************)
None == <<>>
Some(v) == <<v>>
IsNone(o) == o = <<>>
Val(o) == o[1]

(***************************************************************************)
(* Text helpers.                                                           *)
(***************************************************************************)
Digits == <<"0", "1", "2", "3", "4", "5", "6", "7", "8", "9">>
IsDigit(c) == \E i \in 1..10 : Digits[i] = c
DigitVal(c) == (CHOOSE i \in 1..10 : Digits[i] = c) - 1
\* the character class [\d.] of the price pattern
IsNumChar(c) == IsDigit(c) \/ c = "."
IsSpace(c) == c = " "

\* text.replace(ch, "")
Remove(s, ch) == SelectSeq(s, LAMBDA c : c # ch)

\* str.strip()
RECURSIVE LStrip(_)
LStrip(s) == IF s # <<>> /\ IsSpace(Head(s)) THEN LStrip(Tail(s)) ELSE s
RECURSIVE RStrip(_)
RStrip(s) ==
    IF s # <<>> /\ IsSpace(s[Len(s)]) THEN RStrip(SubSeq(s, 1, Len(s) - 1)) ELSE s
Strip(s) == RStrip(LStrip(s))

\* the longest prefix of s made of [\d.] characters
RECURSIVE NumPrefix(_)
NumPrefix(s) ==
    IF s # <<>> /\ IsNumChar(Head(s)) THEN <<Head(s)>> \o NumPrefix(Tail(s)) ELSE <<>>

\* re.findall(r"[\d.]+", s): the maximal runs of [\d.] characters, left to right
RECURSIVE FindNumbers(_)
FindNumbers(s) ==
    IF s = <<>> THEN <<>>
    ELSE IF IsNumChar(Head(s))
         THEN LET run == NumPrefix(s)
              IN  <<run>> \o FindNumbers(SubSeq(s, Len(run) + 1, Len(s)))
         ELSE FindNumbers(Tail(s))

\* value of a digit string
RECURSIVE DigitsValue(_)
DigitsValue(s) ==
    IF s = <<>> THEN 0 ELSE 10 * DigitsValue(SubSeq(s, 1, Len(s) - 1)) + DigitVal(s[Len(s)])

CountDots(s) == Len(SelectSeq(s, LAMBDA c : c = "."))
DotAt(s) == CHOOSE i \in 1..Len(s) : s[i] = "."

\* float(s) raises ValueError on a [\d.] run with two dots or with no digit
FloatRaises(s) == CountDots(s) > 1 \/ ~ \E i \in 1..Len(s) : IsDigit(s[i])

\* float(s) for a [\d.] run on which it does not raise, in hundredths
\* (fraction digits after the second are not representable and are dropped;
\* no price text of the model has any)
FloatHundredths(s) ==
    IF CountDots(s) = 0 THEN 100 * DigitsValue(s)
    ELSE LET d    == DotAt(s)
             int  == SubSeq(s, 1, d - 1)
             frac == SubSeq(s, d + 1, Len(s))
             f2   == SubSeq(frac \o <<"0", "0">>, 1, 2)
         IN  100 * DigitsValue(int) + DigitsValue(f2)

\* round(hundredths * rate, 2) with both factors in hundredths: the product
\* is in ten-thousandths and is rounded to hundredths, ties to even
Round2(x) ==
    LET q == x \div 100
        r == x % 100
    IN  IF r > 50 \/ (r = 50 /\ q % 2 = 1) THEN q + 1 ELSE q

(***************************************************************************)
(* Markup.  An element has a tag, a class, optional href and src           *)
(* attributes and its own text; a product card is a container element with *)
(* the sequence of its descendants in document order; a listing page is    *)
(* the sequence of its containers in document order.                       *)
(***************************************************************************)
El(tag, class, text) ==
    [tag |-> tag, class |-> class, href |-> None, src |-> None, text |-> text]
Anchor(class, href, text) ==
    [tag |-> "a", class |-> class, href |-> Some(href), src |-> None, text |-> text]
Img(src) ==
    [tag |-> "img", class |-> "", href |-> None, src |-> Some(src), text |-> <<>>]
Container(tag, class, els) == [tag |-> tag, class |-> class, els |-> els]

\* the filter of element.find(tag, class_=class, attr=True): AnyClass and
\* NoAttr stand for an argument left out
AnyClass == "*"
NoAttr == ""
Hit(e, tag, class, attr) ==
    /\ e.tag = tag
    /\ class = AnyClass \/ e.class = class
    /\ attr = "href" => ~ IsNone(e.href)

\* element.find(...): the first descendant passing the filter, or None
Find(els, tag, class, attr) ==
    LET hits == {i \in 1..Len(els) : Hit(els[i], tag, class, attr)}
    IN  IF hits = {} THEN None
        ELSE Some(els[CHOOSE i \in hits : \A j \in hits : i <= j])

\* soup.find_all(tag, class_=class_name): all matches, in document order
find_all(soup, tag, class_name) ==
    SelectSeq(soup, LAMBDA c : c.tag = tag /\ c.class = class_name)

\* a or b on two lookups: the first that found something
OrElse(a, b) == IF IsNone(a) THEN b ELSE a

\* tag.get_text(strip=True)
get_text(tag) == Strip(tag.text)

BASE_URL == <<"https:", "/", "/", "cnfans.com">>

\* str.startswith("/")
StartsWithSlash(url) == url # <<>> /\ url[1] = "/"

\* lines 147-148 and 154-155: a root-relative URL gets the origin prefixed
ResolveLink(url) == IF StartsWithSlash(url) THEN BASE_URL \o url ELSE url

(***************************************************************************)
(* Exchange rates.                                                         *)
(***************************************************************************)
Currencies == {"EUR", "USD"}

\* the static factors 0.13 and 0.14
StaticRates == [EUR |-> 13, USD |-> 14]

\* the answers of the rate service: None for a failed request or a bad
\* body, else the "rates" mapping of the body, which may lack currencies
LiveRates == [EUR |-> 12, USD |-> 15]
RateResponses ==
    {None} \cup {Some([c \in S |-> LiveRates[c]]) : S \in SUBSET Currencies}

\* cnfans_webapp.get_exchange_rates
get_exchange_rates(resp) ==
    IF IsNone(resp) THEN [c \in Currencies |-> None]
    ELSE [c \in Currencies |->
            IF c \in DOMAIN Val(resp) THEN Some(Val(resp)[c]) ELSE None]

\* truth value of an optional number: None and 0 are false
Truthy(o) == ~ IsNone(o) /\ Val(o) # 0

\* lines 69-70: the live rate if it is there, else the static factor
Factor(exchange_rates, c) ==
    IF Truthy(exchange_rates[c]) THEN Val(exchange_rates[c]) ELSE StaticRates[c]

\* lines 161-162
Convert(price_cny, factor) == Round2(price_cny * factor)

\* Price.get_exchange_rates: the mapping itself, {} on failure
PriceGetExchangeRates(resp) == IF IsNone(resp) THEN <<>> ELSE Val(resp)

\* rates.get(c, 0)
GetOrZero(rates, c) == IF c \in DOMAIN rates THEN rates[c] ELSE 0

(***************************************************************************)
(* Product pages and the spreadsheet scan.                                 *)
(***************************************************************************)
SheetHost == <<"docs.google.com", "/", "spreadsheets">>
Lower(t) == IF t = "DOCS.GOOGLE.COM" THEN "docs.google.com" ELSE t
LowerAll(url) == [i \in 1..Len(url) |-> Lower(url[i])]

\* needle in haystack, on token sequences
Contains(hay, needle) ==
    \E i \in 1..(Len(hay) - Len(needle) + 1) :
        SubSeq(hay, i, i + Len(needle) - 1) = needle

\* url.split("?")[0]
BeforeQuery(url) ==
    IF \E i \in 1..Len(url) : url[i] = "?"
    THEN SubSeq(url, 1, (CHOOSE i \in 1..Len(url) :
                            url[i] = "?" /\ \A j \in 1..(i - 1) : url[j] # "?") - 1)
    ELSE url

\* the pattern https?://docs\.google\.com/spreadsheets/[^\s'\"]+ (IGNORECASE)
\* on one whitespace-free word of the text
MatchesSheetPattern(word) ==
    /\ Len(word) >= 8
    /\ Lower(word[1]) \in {"http:", "https:"}
    /\ word[2] = "/" /\ word[3] = "/"
    /\ LowerAll(SubSeq(word, 4, 6)) = SheetHost
    /\ word[7] = "/"

find_spreadsheet_links(soup) ==
    {BeforeQuery(soup.anchors[i]) :
        i \in {j \in 1..Len(soup.anchors) : Contains(LowerAll(soup.anchors[j]), SheetHost)}}
    \cup
    {BeforeQuery(soup.words[i]) :
        i \in {j \in 1..Len(soup.words) : MatchesSheetPattern(soup.words[j])}}

SheetUrl == <<"https:", "/", "/", "docs.google.com", "/", "spreadsheets", "/", "d1">>
\* the answers of a product page request: None for a failed request, else
\* the parsed page
PagePlain == [anchors |-> << <<"/", "cart">> >>, words |-> << <<"Jersey">> >>]
PageSheet ==
    [anchors |-> << SheetUrl \o <<"?", "gid=0">> >>, words |-> << SheetUrl >>]
PageResponses == {None, Some(PagePlain), Some(PageSheet)}

\* what a call made inside the loop's try block hands back: a value, or an
\* exception that reaches the except clause of line 174
Returned(v) == [raised |-> FALSE, value |-> v]
Raised == [raised |-> TRUE, value |-> None]

\* the request's exception let through
fetch_product_page_raising(resp) == IF IsNone(resp) THEN Raised ELSE Returned(resp)
\* fetch_product_page: the parsed page; a request that raised is caught
\* inside (lines 41-43) and None is returned
fetch_product_page(resp) == Returned(resp)

(***************************************************************************)
(* Inputs: what the user types and what the network answers.               *)
(***************************************************************************)
\* the keyword box: empty, blank, and a word
Keywords == {<<>>, <<" ">>, <<"j", "e", "r", "s", "e", "y">>}
\* the price box (0 is "no ceiling") in hundredths
MaxPrices == {0, 5000}

\* the yen sign of the price texts, written as the letter Y
Yen == "Y"
T(word) == <<word>>
Url(host, path) == <<"https:", "/", "/", host, "/", path>>
Root(path) == <<"/", path>>
Price40 == <<" ", Yen, "4", "0", " ">>
Price50 == <<Yen, "5", "0", ".", "0", "0">>
Price1234 == <<Yen, "1", ",", "2", "3", "4", ".", "5", "6">>

\* product cards of the listing page, by the container markup they use
CardsLi ==
    { Container("li", "product-item",
        <<Anchor("product-title", Root("p1"), T("Jersey")), Img(Root("i1.png")),
          El("span", "price", Price40)>>),
      Container("li", "product-item",
        <<El("h3", "", T("Jeans")), Anchor("", Url("x.com", "p2"), <<>>),
          El("div", "price", Price50)>>),
      Container("li", "product-item",
        <<Anchor("", <<"p3">>, T("Coat")), El("span", "", Price1234)>>),
      Container("li", "product-item",
        <<El("h3", "", T("Hat")), El("a", "", T("more")), El("span", "price", Price40)>>),
      Container("li", "product-item",
        <<Anchor("", Root("p5"), T("Scarf")), El("em", "price", <<"N", "/", "A">>)>>),
      Container("li", "product-item",
        <<Anchor("", Root("p6"), T("Belt")), El("span", "price", <<"1", ".", "2", ".", "3">>)>>),
      Container("li", "product-item",
        <<Anchor("", Root("p7"), T("Cap")), El("span", "price", <<>>)>>),
      Container("li", "product-item", <<El("span", "price", Price40)>>),
      Container("li", "product-item", <<Anchor("", Root("p9"), T("Sock"))>>) }
CardsOther ==
    { Container("div", "product-list-item",
        <<Anchor("", <<"/", "/", "cdn.cnfans.com", "/", "p10">>, T("Shoe")),
          El("span", "price", <<Yen, "4", "5">>)>>),
      Container("div", "search-item",
        <<Anchor("", Root("p11"), T("Bag")), El("span", "price", <<Yen, "3", "0">>)>>),
      Container("div", "item",
        <<Anchor("", Root("p12"), T("Tie")), El("span", "price", <<Yen, "6", "0">>)>>),
      Container("div", "banner", <<Anchor("", Root("sale"), T("Sale"))>>) }
CardPool == CardsLi \cup CardsOther

RECURSIVE SeqsUpTo(_, _)
SeqsUpTo(S, n) ==
    IF n = 0 THEN {<<>>}
    ELSE LET shorter == SeqsUpTo(S, n - 1)
         IN  shorter \cup {Append(q, x) : q \in {r \in shorter : Len(r) = n - 1}, x \in S}

\* the answers of the listing request: None for a transport error or a
\* non-2xx status, else the parsed page
ListingResponses == {None} \cup {Some(d) : d \in SeqsUpTo(CardPool, MaxCards)}

(***************************************************************************)
(* search_cnfans: locating the cards and examining one card.               *)
(***************************************************************************)
product_selectors ==
    << <<"li", "product-item">>, <<"div", "product-list-item">>,
       <<"div", "search-item">>, <<"div", "item">> >>

\* the matches of all selectors, merged
LocateMerged(soup) ==
    find_all(soup, "li", "product-item") \o find_all(soup, "div", "product-list-item")
        \o find_all(soup, "div", "search-item") \o find_all(soup, "div", "item")
\* lines 104-109: the matches of the first selector that matches anything
RECURSIVE LocateFrom(_, _)
LocateFrom(soup, k) ==
    IF k > Len(product_selectors) THEN <<>>
    ELSE LET found == find_all(soup, product_selectors[k][1], product_selectors[k][2])
         IN  IF found # <<>> THEN found ELSE LocateFrom(soup, k + 1)
Locate(soup) == LocateFrom(soup, 1)

\* the cap compared off by one
CapOffByOne(n, limit) == n > limit
\* the cap never checked
CapNever(n, limit) == FALSE
\* line 119
CapReached(n, limit) == n >= limit

\* line 123
title_tag(product) ==
    OrElse(OrElse(Find(product.els, "a", "product-title", NoAttr),
                  Find(product.els, "h3", AnyClass, NoAttr)),
           Find(product.els, "a", AnyClass, NoAttr))

\* line 129
price_tag(product) ==
    OrElse(OrElse(OrElse(Find(product.els, "span", "price", NoAttr),
                         Find(product.els, "div", "price", NoAttr)),
                  Find(product.els, "em", "price", NoAttr)),
           Find(product.els, "span", AnyClass, NoAttr))

\* line 133
price_text(tag) == Remove(Remove(get_text(tag), Yen), ",")

\* the ceiling compared exclusively
OverCeilingStrict(price_cny, ceiling) == ~ IsNone(ceiling) /\ price_cny >= Val(ceiling)
\* line 139
OverCeiling(price_cny, ceiling) == ~ IsNone(ceiling) /\ price_cny > Val(ceiling)

\* line 142
link_tag(product) == Find(product.els, "a", AnyClass, "href")

\* lines 150-155
img_url(product) ==
    LET img_tag == Find(product.els, "img", AnyClass, NoAttr)
    IN  IF ~ IsNone(img_tag) /\ ~ IsNone(Val(img_tag).src)
        THEN Some(ResolveLink(Val(Val(img_tag).src)))
        ELSE None

Step(kind, title, price_cny, link, img) ==
    [kind |-> kind, title |-> title, price_cny |-> price_cny, link |-> link, img |-> img]
Skip(kind) == Step(kind, <<>>, 0, <<>>, None)

\* lines 123-155: one card up to the product page request.  The kinds are
\* the continue statements ("no_title", "no_price_tag", "no_numbers",
\* "over_price", "no_link"), the exception float() raises ("raised"), and
\* "fetch" for a card that reaches line 158
Examine(product, ceiling) ==
    IF IsNone(title_tag(product)) THEN Skip("no_title")
    ELSE IF IsNone(price_tag(product)) THEN Skip("no_price_tag")
    ELSE LET price_numbers == FindNumbers(price_text(Val(price_tag(product))))
         IN  IF price_numbers = <<>> THEN Skip("no_numbers")
             ELSE IF FloatRaises(price_numbers[1]) THEN Skip("raised")
             ELSE LET price_cny == FloatHundredths(price_numbers[1])
                  IN  IF OverCeiling(price_cny, ceiling) THEN Skip("over_price")
                      ELSE IF IsNone(link_tag(product)) THEN Skip("no_link")
                      ELSE Step("fetch", get_text(Val(title_tag(product))), price_cny,
                                ResolveLink(Val(Val(link_tag(product)).href)),
                                img_url(product))

(***************************************************************************)
(* State.                                                                  *)
(***************************************************************************)
VARIABLES
    prog,          \* which page runs: "webapp" (cnfans_webapp.py) or "price" (Price.py)
    pc,            \* position of the script run
    keyword,       \* main: the keyword box
    max_price,     \* main: the price box, 0 when unset
    max_results,   \* main: the slider
    rates,         \* cnfans_webapp: the (cached) result of get_exchange_rates
    py_rates,      \* Price.py: the result of its get_exchange_rates
    shown,         \* the converted maximum price written to the page, per currency
    soup,          \* search_cnfans: the parsed listing page, None before it is there
    products,      \* search_cnfans: the located cards
    idx,           \* search_cnfans: position of the for loop, 1-based
    results,       \* search_cnfans: the records accepted so far
    count,         \* search_cnfans: the counter of accepted records
    ret,           \* the value search_cnfans returned to main, None before it returns
    ui,            \* the messages written to the page, in order
    listing,       \* history: how the listing request went
    log            \* history: one entry per examined card

vars ==
    <<prog, pc, keyword, max_price, max_results, rates, py_rates, shown, soup,
      products, idx, results, count, ret, ui, listing, log>>

\* Price.py line 23
max_price_cny == 123456

NoRates == [c \in Currencies |-> None]

Init ==
    /\ prog \in {"webapp", "price"}
    /\ pc = "start"
    /\ keyword = <<>>
    /\ max_price = 0
    /\ max_results = 1
    /\ rates = NoRates
    /\ py_rates = <<>>
    /\ shown = NoRates
    /\ soup = None
    /\ products = <<>>
    /\ idx = 1
    /\ results = <<>>
    /\ count = 0
    /\ ret = None
    /\ ui = <<>>
    /\ listing = "none"
    /\ log = <<>>

\* line 211: max_price if max_price > 0 else None
max_price_arg == IF max_price > 0 THEN Some(max_price) ELSE None
\* lines 68-70: get_exchange_rates is cached for an hour (line 10), so the
\* call of line 68 gets what the call of line 188 got in the same run
cny_to_eur == Factor(rates, "EUR")
cny_to_usd == Factor(rates, "USD")

(***************************************************************************)
(* cnfans_webapp.main, lines 181-203: the widgets are read, the rates are  *)
(* fetched and the converted maximum price is written.                     *)
(***************************************************************************)
MainTop ==
    /\ prog = "webapp" /\ pc = "start"
    /\ \E k \in Keywords, mp \in MaxPrices, mr \in 1..MaxResults, resp \in RateResponses :
        LET r == get_exchange_rates(resp)
        IN  /\ keyword' = k
            /\ max_price' = mp
            /\ max_results' = mr
            /\ rates' = r
            /\ IF mp > 0 /\ Truthy(r["EUR"]) /\ Truthy(r["USD"])
               THEN /\ shown' = [c \in Currencies |-> Some(Convert(mp, Val(r[c])))]
                    /\ ui' = Append(ui, "max_price")
               ELSE IF mp > 0
               THEN /\ shown' = [c \in Currencies |-> Some(Convert(mp, StaticRates[c]))]
                    /\ ui' = Append(ui, "max_price_static")
               ELSE UNCHANGED <<shown, ui>>
    /\ pc' = "button"
    /\ UNCHANGED <<prog, py_rates, soup, products, idx, results, count, ret, listing, log>>

\* line 205, button not pressed: the script run ends
NoSearch ==
    /\ pc = "button"
    /\ pc' = "idle"
    /\ UNCHANGED <<prog, keyword, max_price, max_results, rates, py_rates, shown, soup,
                   products, idx, results, count, ret, ui, listing, log>>

\* lines 205-211, button pressed: a blank keyword ends the run with a
\* warning, any other keyword calls search_cnfans
Search ==
    /\ pc = "button"
    /\ IF Strip(keyword) = <<>>
       THEN /\ ui' = Append(ui, "warn_keyword")
            /\ pc' = "idle"
       ELSE /\ pc' = "fetching"
            /\ UNCHANGED ui
    /\ UNCHANGED <<prog, keyword, max_price, max_results, rates, py_rates, shown, soup,
                   products, idx, results, count, ret, listing, log>>

(***************************************************************************)
(* search_cnfans.                                                          *)
(***************************************************************************)
\* lines 88-95: the listing request
FetchListing ==
    /\ pc = "fetching"
    /\ \E resp \in ListingResponses :
        IF IsNone(resp)
        THEN /\ ui' = Append(ui, "error_network")
             /\ ret' = Some(<<>>)
             /\ listing' = "failed"
             /\ pc' = "returned"
             /\ UNCHANGED soup
        ELSE /\ soup' = resp
             /\ listing' = "fetched"
             /\ pc' = "locating"
             /\ UNCHANGED <<ui, ret>>
    /\ UNCHANGED <<prog, keyword, max_price, max_results, rates, py_rates, shown,
                   products, idx, results, count, log>>

\* lines 97-116: the selectors are tried in order
LocateCards ==
    /\ pc = "locating"
    /\ products' = Locate(Val(soup))
    /\ IF products' = <<>>
       THEN /\ ui' = Append(ui, "warn_selectors")
            /\ ret' = Some(<<>>)
            /\ pc' = "returned"
       ELSE /\ pc' = "loop"
            /\ UNCHANGED <<ui, ret>>
    /\ UNCHANGED <<prog, keyword, max_price, max_results, rates, py_rates, shown, soup,
                   idx, results, count, listing, log>>

Entry(i, before, kind, fetched, failed) ==
    [idx |-> i, count_before |-> before, kind |-> kind, fetched |-> fetched,
     fetch_failed |-> failed]

\* lines 164-172
Record(e, links) ==
    [Title |-> e.title, PriceCNY |-> e.price_cny,
     PriceEUR |-> Convert(e.price_cny, cny_to_eur),
     PriceUSD |-> Convert(e.price_cny, cny_to_usd),
     Link |-> e.link, ImgURL |-> e.img, Sheets |-> links]

\* line 159: the links of the page, none when there is no page
LinksOf(product_soup) ==
    IF ~ IsNone(product_soup) THEN find_spreadsheet_links(Val(product_soup)) ELSE {}

\* the continue statements and the except clause (lines 174-176): the loop
\* goes on with the card after card i of n
\* a rejected card ending the loop instead
BreakLoop(i, n) == n + 1
Continue(i, n) == i + 1

\* lines 118-176, one iteration of the for loop
ExamineProduct ==
    /\ pc = "loop"
    /\ idx <= Len(products)
    /\ ~ CapReached(count, max_results)
    /\ LET e == Examine(products[idx], max_price_arg)
       IN  IF e.kind = "fetch"
           THEN \E resp \in PageResponses :
                   LET call == fetch_product_page(resp)
                   IN  IF call.raised
                       THEN /\ ui' = Append(ui, "skipped")
                            /\ log' = Append(log, Entry(idx, count, "raised", TRUE, TRUE))
                            /\ idx' = Continue(idx, Len(products))
                            /\ UNCHANGED <<results, count>>
                       ELSE /\ results' = Append(results, Record(e, LinksOf(call.value)))
                            /\ count' = count + 1
                            /\ ui' = IF IsNone(call.value)
                                     THEN Append(ui, "warn_product_page") ELSE ui
                            /\ log' = Append(log, Entry(idx, count, "accepted", TRUE,
                                                        IsNone(resp)))
                            /\ idx' = idx + 1
           ELSE /\ ui' = IF e.kind = "raised" THEN Append(ui, "skipped") ELSE ui
                /\ log' = Append(log, Entry(idx, count, e.kind, FALSE, FALSE))
                /\ idx' = Continue(idx, Len(products))
                /\ UNCHANGED <<results, count>>
    /\ UNCHANGED <<prog, pc, keyword, max_price, max_results, rates, py_rates, shown,
                   soup, products, ret, listing>>

\* line 120 (break) or the end of the cards, then line 178
ReturnResults ==
    /\ pc = "loop"
    /\ idx > Len(products) \/ CapReached(count, max_results)
    /\ ret' = Some(results)
    /\ pc' = "returned"
    /\ UNCHANGED <<prog, keyword, max_price, max_results, rates, py_rates, shown, soup,
                   products, idx, results, count, ui, listing, log>>

\* lines 213-247: main gets the value back and renders it
Render ==
    /\ pc = "returned"
    /\ ui' = Append(ui, IF Val(ret) = <<>> THEN "info_no_products" ELSE "results")
    /\ pc' = "idle"
    /\ UNCHANGED <<prog, keyword, max_price, max_results, rates, py_rates, shown, soup,
                   products, idx, results, count, ret, listing, log>>

(***************************************************************************)
(* Price.main, lines 17-41.                                                *)
(***************************************************************************)
PriceMain ==
    /\ prog = "price" /\ pc = "start"
    /\ \E resp \in RateResponses :
        LET r == PriceGetExchangeRates(resp)
        IN  /\ py_rates' = r
            /\ IF DOMAIN r # {}
               THEN /\ shown' = [c \in Currencies |->
                                    Some(Round2(max_price_cny * GetOrZero(r, c)))]
                    /\ ui' = Append(ui, "max_price")
               ELSE /\ ui' = Append(ui, "error_rates")
                    /\ UNCHANGED shown
    /\ pc' = "idle"
    /\ UNCHANGED <<prog, keyword, max_price, max_results, rates, soup, products, idx,
                   results, count, ret, listing, log>>

Next ==
    \/ MainTop
    \/ NoSearch
    \/ Search
    \/ FetchListing
    \/ LocateCards
    \/ ExamineProduct
    \/ ReturnResults
    \/ Render
    \/ PriceMain

Spec == Init /\ [][Next]_vars

(***************************************************************************)
(* Properties.  The definitions below state the claims in terms of the     *)
(* cards of the page, not of the loop that walks them.                     *)
(***************************************************************************)
InSearch == prog = "webapp" /\ pc \in {"loop", "returned", "idle"} /\ listing = "fetched"
Finished == pc \in {"returned", "idle"} /\ ~ IsNone(ret)

\* the card has a title, a price element and a link
HasFields(card) ==
    ~ IsNone(title_tag(card)) /\ ~ IsNone(price_tag(card)) /\ ~ IsNone(link_tag(card))
\* the numeric substrings of the card's price text
Numbers(card) == FindNumbers(price_text(Val(price_tag(card))))
\* the price text yields a number
Parses(card) == Numbers(card) # <<>> /\ ~ FloatRaises(Numbers(card)[1])
PriceOf(card) == FloatHundredths(Numbers(card)[1])
\* the card has title, price and link, and its price passes the ceiling
Qualifies(card) ==
    /\ HasFields(card)
    /\ Parses(card)
    /\ (max_price > 0 => PriceOf(card) <= max_price)
QualifyingIdx ==
    SelectSeq([i \in 1..Len(products) |-> i], LAMBDA i : Qualifies(products[i]))
Min(a, b) == IF a <= b THEN a ELSE b
\* an absolute URL: scheme, "//", host
IsAbsolute(url) ==
    Len(url) >= 4 /\ url[1] \in {"http:", "https:"} /\ url[2] = "/" /\ url[3] = "/"
    /\ url[4] # "/"

\* C1: search_cnfans never holds or returns more than max_results records
CapInvariant ==
    prog = "webapp" /\ pc # "start" =>
        /\ Len(results) <= max_results
        /\ ~ IsNone(ret) => Len(Val(ret)) <= max_results
\* the cap binds: max_results records are returned and a later card that
\* qualifies was left out
CapBinds ==
    /\ Finished /\ InSearch
    /\ Len(Val(ret)) = max_results
    /\ \E j \in idx..Len(products) : Qualifies(products[j])

\* C2: with a ceiling set every returned record has PriceCNY <= max_price,
\* and an examined card with all fields whose price equals the ceiling is
\* accepted
FilterInvariant ==
    InSearch /\ max_price > 0 =>
        /\ \A k \in 1..Len(results) : results[k].PriceCNY <= max_price
        /\ ~ IsNone(ret) => \A k \in 1..Len(Val(ret)) : Val(ret)[k].PriceCNY <= max_price
        /\ \A k \in 1..Len(log) :
              LET card == products[log[k].idx]
              IN  HasFields(card) /\ Parses(card) /\ PriceOf(card) = max_price
                    => log[k].kind = "accepted"
\* a record priced exactly at the ceiling is returned, and a card over the
\* ceiling was examined
BoundaryReturned ==
    /\ Finished /\ InSearch /\ max_price > 0
    /\ \E k \in 1..Len(Val(ret)) : Val(ret)[k].PriceCNY = max_price
    /\ \E k \in 1..Len(log) : log[k].kind = "over_price"

\* C3: wherever a converted price is attached or shown, a currency whose
\* rate is missing (or all of them, when the rate request failed) is
\* converted with its static factor: never with zero, never left out
ConversionFallback ==
    \A c \in Currencies :
        /\ prog = "webapp" /\ IsNone(rates[c]) =>
              /\ \A k \in 1..Len(results) :
                    LET r == results[k]
                    IN  (IF c = "EUR" THEN r.PriceEUR ELSE r.PriceUSD)
                            = Convert(r.PriceCNY, StaticRates[c])
              /\ pc # "start" /\ max_price > 0 =>
                    shown[c] = Some(Convert(max_price, StaticRates[c]))
        /\ prog = "price" /\ pc = "idle" /\ c \notin DOMAIN py_rates =>
              shown[c] = Some(Convert(max_price_cny, StaticRates[c]))

\* C4: the value returned after a failed listing request differs from the
\* value returned after a request that succeeded and gave zero records
\* (the empty list)
FetchFailureDistinct ==
    prog = "webapp" /\ Finished /\ listing = "failed" => Val(ret) # <<>>

\* C5: the returned records are exactly the first min(max_results, number
\* of qualifying cards) qualifying cards, in document order, whatever
\* rejected cards stand between them; a card qualifies when it has a title,
\* a price text that yields a number, and a link, and passes the ceiling
\* (a price text that yields no number is the rejection by a parsing error)
DiscoveryOrder ==
    Finished /\ InSearch /\ products # <<>> =>
        LET want == SubSeq(QualifyingIdx, 1, Min(max_results, Len(QualifyingIdx)))
            got  == Val(ret)
        IN  /\ Len(got) = Len(want)
            /\ \A k \in 1..Len(want) :
                  LET card == products[want[k]]
                  IN  /\ got[k].Title = get_text(Val(title_tag(card)))
                      /\ got[k].PriceCNY = PriceOf(card)
                      /\ got[k].Link = ResolveLink(Val(Val(link_tag(card)).href))
\* a rejected card precedes an accepted one in the same batch
RejectedThenAccepted ==
    /\ Finished /\ InSearch
    /\ Len(Val(ret)) >= 1
    /\ \E i, j \in 1..Len(log) :
          /\ i < j
          /\ log[i].kind \in {"raised", "no_link", "over_price", "no_title"}
          /\ log[j].kind = "accepted"

\* C6: every returned record's link is an absolute URL
LinkAbsolute ==
    InSearch => \A k \in 1..Len(results) : IsAbsolute(results[k].Link)

\* C7: a card whose product page request failed is a record with no
\* spreadsheet links, it counts, and the loop goes on to the cap or to the
\* last card with no failure of the invocation
AuxFailureAbsorbed ==
    InSearch =>
        /\ \A k \in 1..Len(log) :
              log[k].fetched /\ log[k].fetch_failed =>
                  LET n == log[k].count_before + 1
                  IN  /\ log[k].kind = "accepted"
                      /\ n <= Len(results) /\ n <= count
                      /\ results[n].Sheets = {}
                      /\ results[n].Link =
                            ResolveLink(Val(Val(link_tag(products[log[k].idx])).href))
        /\ Finished /\ products # <<>> =>
              /\ Val(ret) = results
              /\ idx > Len(products) \/ count >= max_results
              /\ \A k \in 1..Len(ui) : ui[k] # "error_network"
\* a product page request failed and a later card was accepted after it
FailedThenAccepted ==
    /\ Finished /\ InSearch
    /\ \E i, j \in 1..Len(log) :
          /\ i < j
          /\ log[i].fetched /\ log[i].fetch_failed
          /\ log[j].kind = "accepted" /\ ~ log[j].fetch_failed
    /\ Len(Val(ret)) = 2

\* C8: with no ceiling set, an examined card that has title, price element
\* and link but whose price text yields no number is accepted as a record
\* rather than rejected
UnparseableKept ==
    InSearch /\ max_price = 0 =>
        \A k \in 1..Len(log) :
            LET card == products[log[k].idx]
            IN  HasFields(card) /\ ~ Parses(card) => log[k].kind = "accepted"

\* C9: the cards are exactly the matches of the first selector, in the
\* fixed order, that matches anything; when none matches, nothing is
\* extracted or fetched and the result is empty
Matches(k) == find_all(Val(soup), product_selectors[k][1], product_selectors[k][2])
FirstNonEmptyWins ==
    InSearch =>
        LET hit == {k \in 1..Len(product_selectors) : Matches(k) # <<>>}
        IN  IF hit = {}
            THEN products = <<>> /\ log = <<>> /\ results = <<>> /\ ret = Some(<<>>)
            ELSE products = Matches(CHOOSE k \in hit : \A j \in hit : k <= j)
\* the second selector wins over a later one that matches too
SecondSelectorWins ==
    /\ InSearch /\ pc = "loop"
    /\ Matches(1) = <<>> /\ Matches(2) # <<>>
    /\ \E k \in 3..Len(product_selectors) : Matches(k) # <<>>
    /\ products = Matches(2)

\* C10: a card is examined only while fewer than max_results records are
\* accepted, at most max_results product pages are requested, and a page is
\* requested only for a card that has its fields and passes the ceiling
ShortCircuit ==
    InSearch =>
        /\ \A k \in 1..Len(log) :
              /\ log[k].count_before < max_results
              /\ log[k].fetched => Qualifies(products[log[k].idx])
        /\ Len(SelectSeq(log, LAMBDA e : e.fetched)) <= max_results
\* the cap was reached with cards left that were never examined
CardsLeftUnexamined ==
    /\ Finished /\ InSearch
    /\ count = max_results
    /\ Len(log) < Len(products)
    /\ Len(SelectSeq(log, LAMBDA e : e.fetched)) = max_results

====
